---- MODULE Spec2Model ----
(***************************************************************************)
(* oswatcher capture session: src/oswatcher/capture.py                     *)
(*                                                                         *)
(* capture_main() sequences one capture session: it parses the hook        *)
(* configuration, checks the Neo4j ledger for an OS node of the VM name    *)
(* (skip / replace / create), builds a QEMUDomainContextFactory (temporary *)
(* domain XML file and temporary storage directory), runs protocol()       *)
(* inside the two with-blocks, handles KeyboardInterrupt, and pushes the   *)
(* OS node.  Every statement that touches the ledger, the temporary        *)
(* resources or the context is one step of the session's program counter.  *)
(*                                                                         *)
(* Exceptions modelled: a failure of each hypervisor call of __init__, a   *)
(* failure of Environment's entry, a hook raising out of context.trigger,  *)
(* and KeyboardInterrupt at every statement of the try block (lines        *)
(* 173-183).  The ledger calls themselves do not fail, and no interrupt    *)
(* arrives outside the try block.                                          *)
(***************************************************************************)
EXTENDS Integers, Sequences, FiniteSets, TLC

VARIABLES
    store,   \* the Neo4j graph: [nodes, edges, synced]
    sess     \* session id -> the state of that run of capture_main

vars == <<store, sess>>

----------------------------------------------------------------------------
(* Bounds of the model.                                                    *)

\* largest desktop_ready_delay a hook configuration sets explicitly
MaxDelay == 1
\* evidence nodes the hooks of one session may attach to its OS node
MaxAttach == 1

\* DESKTOP_READY_DELAY, the default when the key is unset
DESKTOP_READY_DELAY == 180

VMNames == {"a", "b"}

----------------------------------------------------------------------------
(* The ledger store.  A node is [kind, name, sess, idx]; sess = 0 marks a  *)
(* node that was in the store before the session started.  An edge is a    *)
(* directed pair <<from, to>>.  synced holds the OS nodes whose in-memory  *)
(* attributes have been pushed.                                            *)

OSNode(name, s) == [kind |-> "OS", name |-> name, sess |-> s, idx |-> 0]
EvNode(name, s, i) == [kind |-> "Ev", name |-> name, sess |-> s, idx |-> i]

PriorOS == {OSNode(n, 0) : n \in VMNames}
PriorEv == {EvNode("e1", 0, 0), EvNode("e2", 0, 0)}
PriorNodes == PriorOS \cup PriorEv

\* relationships the store may hold before the session: OS -> evidence and
\* evidence -> evidence
PriorEdges ==
    (PriorOS \X PriorEv)
      \cup {<<EvNode("e1", 0, 0), EvNode("e2", 0, 0)>>,
            <<EvNode("e2", 0, 0), EvNode("e1", 0, 0)>>}

EmptyStore == [nodes |-> {}, edges |-> {}, synced |-> {}]

WellFormed(st) == \A e \in st.edges : e[1] \in st.nodes /\ e[2] \in st.nodes

\* every graph over the prior nodes and relationships
Stores ==
    { st \in [nodes : SUBSET PriorNodes, edges : SUBSET PriorEdges, synced : {{}}] :
        WellFormed(st) }

\* OS.match(graph).where("_.name = '{}'".format(vm_name))
Match(st, vm) == {n \in st.nodes : n.kind = "OS" /\ n.name = vm}

\* one hop of -[]- : neighbours over a relationship in either direction
Neighbours(st, S) ==
    {m \in st.nodes : \E n \in S : <<n, m>> \in st.edges \/ <<m, n>> \in st.edges}

\* (o)-[*0..]-(x): every x reachable from S over zero or more relationships
RECURSIVE Reach(_, _)
Reach(st, S) ==
    LET T == S \cup Neighbours(st, S)
    IN  IF T = S THEN S ELSE Reach(st, T)

\* mutant: the WHERE clause is missing, every OS node matches
Subgraph_any_os(st, vm) == Reach(st, {n \in st.nodes : n.kind = "OS"})

\* MATCH (o:OS)-[*0..]-(x) WHERE o.name = vm WITH DISTINCT x
Subgraph(st, vm) == Reach(st, Match(st, vm))

\* DETACH DELETE x: the nodes and every relationship that touches one
DetachDelete(st, X) ==
    [nodes  |-> st.nodes \ X,
     edges  |-> {e \in st.edges : e[1] \notin X /\ e[2] \notin X},
     synced |-> st.synced \ X]

\* mutant: only the OS node itself is deleted
SUBGRAPH_DELETE_OS_node_only(st, vm) == DetachDelete(st, Match(st, vm))

\* graph.run(SUBGRAPH_DELETE_OS.format(vm_name))
SUBGRAPH_DELETE_OS(st, vm) == DetachDelete(st, Subgraph(st, vm))

\* graph.delete_all()
DeleteAll(st) == EmptyStore

\* graph.create(os_node)
Create(st, node) == [st EXCEPT !.nodes = @ \cup {node}]

\* mutant: pushing a node that is no longer in the store creates it again
Push_recreates(st, node) ==
    [st EXCEPT !.nodes = @ \cup {node}, !.synced = @ \cup {node}]

\* graph.push(os_node): writes the node's attributes back to the node it is
\* bound to; a node that is no longer in the store matches nothing
Push(st, node) ==
    IF node \in st.nodes THEN [st EXCEPT !.synced = @ \cup {node}] ELSE st

----------------------------------------------------------------------------
(* One session: a run of capture_main(args).                               *)

\* args and the parsed hooks.json: json_ok = the file parses; delay_set =
\* 'desktop_ready_delay' is a key of the configuration; enabled, delete
\* and replace are the keys of configuration.neo4j (delete and replace may
\* be set while enabled is false or missing)
Args ==
    { a \in [vm_name : VMNames, json_ok : BOOLEAN, delay_set : BOOLEAN,
             delay : 0..MaxDelay, enabled : BOOLEAN, delete : BOOLEAN,
             replace : BOOLEAN] :
        /\ (~a.delay_set => a.delay = 0)
        /\ (~a.enabled => a.delete = a.replace)
        /\ (~a.json_ok => ~a.delay_set /\ ~a.enabled /\ ~a.delete) }

NewSession(a, st) ==
    [pc       |-> "load",
     args     |-> a,
     delay    |-> 0,         \* hooks_config['configuration']['desktop_ready_delay']
     graph    |-> FALSE,     \* neo4j['graph'] is set
     os_node  |-> {},        \* neo4j['OS']: {} is None
     tmp_f    |-> "none",    \* domain_tmp_f: none, open, closed
     storage  |-> "none",    \* osw_storage_path: none, exists, removed
     env      |-> "none",    \* Environment: none, entered, exited
     powered  |-> FALSE,     \* the context's domain is running
     slept    |-> 0,         \* seconds spent in time.sleep
     exc      |-> "none",    \* exception in flight: none, error, interrupt
     exits    |-> 0,         \* runs of QEMUDomainContextFactory.__exit__
     attached |-> 0,         \* evidence nodes the hooks attached
     provisioned |-> FALSE,  \* QEMUDomainContextFactory.__init__ returned
     phases   |-> <<>>,      \* triggers and power operations started, in order
     checks   |-> <<>>,      \* the store at each os_match.first()
     dels     |-> <<>>,      \* the store before and after each SUBGRAPH_DELETE_OS
     calls    |-> <<>>,      \* ledger calls made, in order
     raised_at |-> "none",   \* the statement the exception in flight left
     interrupted |-> FALSE,  \* the except KeyboardInterrupt block ran
     outcome  |-> "none",
     store0   |-> st,        \* the store when the session started
     atCreate |-> {}]        \* the store when graph.create ran

Init ==
    /\ store \in Stores
    /\ \E a \in Args : sess = [s \in {1} |-> NewSession(a, store)]

Sessions == DOMAIN sess

\* the session's record with the given fields changed
Upd(s, r) == sess' = [sess EXCEPT ![s] = r]

Call(r, name) == Append(r.calls, name)

----------------------------------------------------------------------------
(* capture_main, lines 120-170: configuration and admission.               *)

\* mutant: the handler of json.JSONDecodeError logs and does not return; the
\* session goes on with hooks_config = {}
LoadConfig_no_return(s) ==
    LET r == sess[s] IN
    /\ r.pc = "load"
    /\ Upd(s, [r EXCEPT !.pc = "neo4j",
                        !.delay = IF r.args.json_ok /\ r.args.delay_set
                                  THEN r.args.delay
                                  ELSE DESKTOP_READY_DELAY])
    /\ UNCHANGED store

\* json.load(f); the defaults of 'configuration' (lines 120-139)
LoadConfig(s) ==
    LET r == sess[s] IN
    /\ r.pc = "load"
    /\ \/ /\ ~r.args.json_ok
          /\ Upd(s, [r EXCEPT !.pc = "done", !.outcome = "config_error"])
       \/ /\ r.args.json_ok
          /\ Upd(s, [r EXCEPT !.pc = "neo4j",
                              !.delay = IF r.args.delay_set THEN r.args.delay
                                        ELSE DESKTOP_READY_DELAY])
    /\ UNCHANGED store

\* if neo4j.get('enabled'): graph = Graph(password=DB_PASSWORD) (lines 142-145)
Connect(s) ==
    LET r == sess[s] IN
    /\ r.pc = "neo4j"
    /\ \/ /\ r.args.enabled
          /\ Upd(s, [r EXCEPT !.pc = "delete", !.calls = Call(r, "connect")])
       \/ /\ ~r.args.enabled
          /\ Upd(s, [r EXCEPT !.pc = "p_tmpfile"])
    /\ UNCHANGED store

\* if delete: graph.delete_all() (lines 148-151)
DeleteGraph(s) ==
    LET r == sess[s] IN
    /\ r.pc = "delete"
    /\ \/ /\ r.args.delete
          /\ store' = DeleteAll(store)
          /\ Upd(s, [r EXCEPT !.pc = "match1", !.calls = Call(r, "deleteAll")])
       \/ /\ ~r.args.delete
          /\ UNCHANGED store
          /\ Upd(s, [r EXCEPT !.pc = "match1"])

\* os_match.first(): the query runs when the expression is evaluated
Queried(r, st) ==
    [r EXCEPT !.calls = Call(r, "findByName"), !.checks = Append(@, st)]

\* mutant: the skip test dropped
Skips_never(replace, found) == FALSE

\* not replace and os_match.first() (line 156); found is consulted only
\* when replace is false
Skips(replace, found) == ~replace /\ found

\* if not replace and os_match.first(): return (lines 154-158)
SkipIfPresent(s) ==
    LET r == sess[s]
        found == Match(store, r.args.vm_name) # {}
        q == IF r.args.replace THEN r ELSE Queried(r, store)
    IN
    /\ r.pc = "match1"
    /\ \/ /\ Skips(r.args.replace, found)
          /\ Upd(s, [q EXCEPT !.pc = "done", !.outcome = "skipped"])
       \/ /\ ~Skips(r.args.replace, found)
          /\ Upd(s, [q EXCEPT !.pc = "match2"])
    /\ UNCHANGED store

\* mutant: the elif never holds, nothing is deleted before graph.create
Replaces_never(found) == FALSE

\* mutant: the elif tests nothing
Replaces_always(found) == TRUE

\* the condition of the elif (line 159)
Replaces(found) == found

\* elif os_match.first(): (line 159)
ReplaceIfPresent(s) ==
    LET r == sess[s]
        found == Match(store, r.args.vm_name) # {}
        q == Queried(r, store)
    IN
    /\ r.pc = "match2"
    /\ \/ /\ Replaces(found)
          /\ Upd(s, [q EXCEPT !.pc = "del_prev"])
       \/ /\ ~Replaces(found)
          /\ Upd(s, [q EXCEPT !.pc = "create"])
    /\ UNCHANGED store

\* mutant: the previous entity is logged as deleted but the query is not run
DeletePrevious_not_run(s) ==
    LET r == sess[s] IN
    /\ r.pc = "del_prev"
    /\ UNCHANGED store
    /\ Upd(s, [r EXCEPT !.pc = "create", !.calls = Call(r, "deleteSubgraph"),
                        !.dels = Append(@, [before |-> store, after |-> store])])

\* graph.run(SUBGRAPH_DELETE_OS.format(vm_name)) (lines 160-162)
DeletePrevious(s) ==
    LET r == sess[s] IN
    /\ r.pc = "del_prev"
    /\ store' = SUBGRAPH_DELETE_OS(store, r.args.vm_name)
    /\ Upd(s, [r EXCEPT !.pc = "create", !.calls = Call(r, "deleteSubgraph"),
                        !.dels = Append(@, [before |-> store, after |-> store'])])

\* os_node = OS(vm_name); graph.create(os_node); neo4j['OS'], neo4j['graph']
\* (lines 164-170)
CreateOS(s) ==
    LET r == sess[s]
        node == OSNode(r.args.vm_name, s)
    IN
    /\ r.pc = "create"
    /\ store' = Create(store, node)
    /\ Upd(s, [r EXCEPT !.pc = "p_tmpfile", !.calls = Call(r, "create"),
                        !.os_node = {node}, !.graph = TRUE,
                        !.atCreate = {store}])

----------------------------------------------------------------------------
(* QEMUDomainContextFactory.__init__, lines 32-65, called at line 174      *)
(* inside the try block and before the with statement has entered.         *)

\* an exception leaves __init__: __exit__ is not run, since the with
\* statement never got its context manager.  A KeyboardInterrupt goes to
\* the except clause of line 184, anything else out of capture_main.
InitRaises(r, kind) ==
    [r EXCEPT !.exc = kind, !.raised_at = r.pc,
              !.pc = IF kind = "interrupt" THEN "except" ELSE "prov_raised"]

\* the statement at r.pc completes (leaving record q), fails, or is interrupted
InitStep(s, q, next, canFail) ==
    \/ Upd(s, [q EXCEPT !.pc = next])
    \/ /\ canFail
       /\ Upd(s, InitRaises(sess[s], "error"))
    \/ Upd(s, InitRaises(sess[s], "interrupt"))

\* self.domain_tmp_f = NamedTemporaryFile(mode='w') (line 34)
MakeTempFile(s) ==
    LET r == sess[s] IN
    /\ r.pc = "p_tmpfile"
    /\ InitStep(s, [r EXCEPT !.tmp_f = "open"], "p_open", FALSE)
    /\ UNCHANGED store

\* con = libvirt.open(uri) (line 35)
OpenHypervisor(s) ==
    LET r == sess[s] IN
    /\ r.pc = "p_open"
    /\ InitStep(s, r, "p_lookup", TRUE)
    /\ UNCHANGED store

\* domain = con.lookupByName(domain_name) (line 36)
LookupDomain(s) ==
    LET r == sess[s] IN
    /\ r.pc = "p_lookup"
    /\ InitStep(s, r, "p_xml", TRUE)
    /\ UNCHANGED store

\* xml = domain.XMLDesc(); write and flush it to domain_tmp_f (lines 37-39)
ExportXML(s) ==
    LET r == sess[s] IN
    /\ r.pc = "p_xml"
    /\ InitStep(s, r, "p_disk", TRUE)
    /\ UNCHANGED store

\* qcow_path = Path(get_hard_drive_path(domain)) (line 41)
ResolveDisk(s) ==
    LET r == sess[s] IN
    /\ r.pc = "p_disk"
    /\ InitStep(s, r, "p_tmpdir", TRUE)
    /\ UNCHANGED store

\* self.osw_storage_path = TemporaryDirectory(...) (lines 43-44)
MakeTempDir(s) ==
    LET r == sess[s] IN
    /\ r.pc = "p_tmpdir"
    /\ InitStep(s, [r EXCEPT !.storage = "exists"], "p_super", FALSE)
    /\ UNCHANGED store

\* super().__init__(context_config) (lines 46-65)
BaseInit(s) ==
    LET r == sess[s] IN
    /\ r.pc = "p_super"
    /\ InitStep(s, [r EXCEPT !.provisioned = TRUE], "env_enter", TRUE)
    /\ UNCHANGED store

\* the exception of a failed __init__ leaves capture_main (nothing between
\* line 174 and the caller catches it)
PropagateInitError(s) ==
    LET r == sess[s] IN
    /\ r.pc = "prov_raised"
    /\ Upd(s, [r EXCEPT !.pc = "done", !.outcome = "provision_error"])
    /\ UNCHANGED store

----------------------------------------------------------------------------
(* The with-blocks of lines 174-183 and protocol(), lines 75-93.           *)

\* mutant: the KeyboardInterrupt handler sits inside the with-blocks and runs
\* before their __exit__
Raises_handler_inside(r, kind, exitpc) ==
    [r EXCEPT !.exc = kind, !.raised_at = r.pc,
              !.pc = IF kind = "interrupt" THEN "except" ELSE exitpc]

\* an exception raised inside the with-blocks: the blocks' __exit__ run first
Raises(r, kind, exitpc) ==
    [r EXCEPT !.exc = kind, !.raised_at = r.pc, !.pc = exitpc]

\* with Environment(context, hooks_config) as environment (line 175):
\* the sandbox allocates the context (the clone lives in osw_storage_path)
EnterEnvironment(s) ==
    LET r == sess[s] IN
    /\ r.pc = "env_enter"
    /\ \/ Upd(s, [r EXCEPT !.env = "entered", !.pc = "t_start"])
       \/ Upd(s, Raises(r, "error", "ctx_exit"))
       \/ Upd(s, Raises(r, "interrupt", "ctx_exit"))
    /\ UNCHANGED store

\* what a hook does to the ledger while a trigger runs: nothing, or it
\* attaches one evidence node to the session's OS node
HookStores(st, r, s) ==
    {st} \cup
    { [st EXCEPT !.nodes = @ \cup {EvNode("hook", s, r.attached + 1)},
                 !.edges = @ \cup {<<o, EvNode("hook", s, r.attached + 1)>>}] :
        o \in {n \in r.os_node : n \in st.nodes /\ r.attached < MaxAttach} }

\* mutant: the comparison includes zero
PowerCycle_ge(d) == d >= 0

\* if desktop_ready_delay > 0 (line 81)
PowerCycle(d) == d > 0

\* mutant: with a delay of zero the driver returns after 'offline'
AfterOffline_early_return(r) ==
    IF PowerCycle(r.delay) THEN "poweron" ELSE "env_exit"

\* the statement after trigger('offline') (lines 80-81)
AfterOffline(r) == IF PowerCycle(r.delay) THEN "poweron" ELSE "t_end"

\* context.trigger(point): the hooks run and return, or one raises, or the
\* operator interrupts
Trigger(s, point, next) ==
    LET r == sess[s] IN
    \E st \in HookStores(store, r, s) :
        LET q == [r EXCEPT !.phases = Append(@, point),
                           !.attached = IF st = store THEN @ ELSE @ + 1]
        IN
        /\ store' = st
        /\ \/ Upd(s, [q EXCEPT !.pc = next])
           \/ Upd(s, Raises(q, "error", "env_exit"))
           \/ Upd(s, Raises(q, "interrupt", "env_exit"))

\* context.trigger('protocol_start') (line 78)
TriggerProtocolStart(s) ==
    /\ sess[s].pc = "t_start"
    /\ Trigger(s, "protocol_start", "t_offline")

\* context.trigger('offline') (line 79)
TriggerOffline(s) ==
    /\ sess[s].pc = "t_offline"
    /\ Trigger(s, "offline", AfterOffline(sess[s]))

\* context.poweron() (line 84)
PowerOn(s) ==
    LET r == sess[s] IN
    /\ r.pc = "poweron"
    /\ \/ Upd(s, [r EXCEPT !.powered = TRUE, !.pc = "sleep",
                           !.phases = Append(@, "poweron")])
       \/ Upd(s, Raises([r EXCEPT !.powered = TRUE,
                                  !.phases = Append(@, "poweron")],
                        "interrupt", "env_exit"))
    /\ UNCHANGED store

\* time.sleep(config['desktop_ready_delay']) (line 88)
Sleep(s) ==
    LET r == sess[s] IN
    /\ r.pc = "sleep"
    /\ \/ Upd(s, [r EXCEPT !.slept = r.delay, !.pc = "t_ready"])
       \/ Upd(s, Raises(r, "interrupt", "env_exit"))
    /\ UNCHANGED store

\* context.trigger('desktop_ready') (line 89)
TriggerDesktopReady(s) ==
    /\ sess[s].pc = "t_ready"
    /\ Trigger(s, "desktop_ready", "poweroff")

\* context.poweroff() (line 92)
PowerOff(s) ==
    LET r == sess[s] IN
    /\ r.pc = "poweroff"
    /\ \/ Upd(s, [r EXCEPT !.powered = FALSE, !.pc = "t_end",
                           !.phases = Append(@, "poweroff")])
       \/ Upd(s, Raises([r EXCEPT !.phases = Append(@, "poweroff")],
                        "interrupt", "env_exit"))
    /\ UNCHANGED store

\* context.trigger('protocol_end') (line 93); lines 179-183 only log
TriggerProtocolEnd(s) ==
    /\ sess[s].pc = "t_end"
    /\ Trigger(s, "protocol_end", "env_exit")

\* leaving the block of line 175: the sandbox releases the context, which
\* stops the domain if it runs
ExitEnvironment(s) ==
    LET r == sess[s] IN
    /\ r.pc = "env_exit"
    /\ Upd(s, [r EXCEPT !.env = "exited", !.powered = FALSE, !.pc = "ctx_exit"])
    /\ UNCHANGED store

\* mutant: the temporary file is never closed
Release_dir_only(r) == [r EXCEPT !.storage = "removed", !.exits = @ + 1]

\* QEMUDomainContextFactory.__exit__ (lines 70-72)
Release(r) ==
    [r EXCEPT !.storage = "removed", !.tmp_f = "closed", !.exits = @ + 1]

\* mutant: the except clause catches every exception
AfterWith_catch_all(exc) == IF exc = "none" THEN "push" ELSE "except"

\* where control goes once the with statement of line 174 is left: on, to
\* the except clause, or out of capture_main
AfterWith(exc) ==
    CASE exc = "none"      -> "push"
      [] exc = "interrupt" -> "except"
      [] OTHER             -> "done"

\* leaving the block of line 174: __exit__ returns None, so the exception
\* in flight goes on
ExitContext(s) ==
    LET r == sess[s]
        q == Release(r)
    IN
    /\ r.pc = "ctx_exit"
    /\ Upd(s, [q EXCEPT !.pc = AfterWith(r.exc),
                        !.outcome = IF AfterWith(r.exc) = "done"
                                    THEN "failed" ELSE @])
    /\ UNCHANGED store

----------------------------------------------------------------------------
(* capture_main, lines 184-198: the interrupt handler and the push.        *)

\* mutant: the handler does not test neo4j.get('enabled')
RollsBack_unguarded(r) == TRUE

\* mutant: the handler does not touch the ledger
RollsBack_never(r) == FALSE

\* if neo4j.get('enabled') ... if graph is not None and os_node is not None
RollsBack(r) == r.args.enabled /\ r.graph /\ r.os_node # {}

\* except KeyboardInterrupt (lines 184-192); control then falls through to
\* line 194
Except(s) ==
    LET r == sess[s] IN
    /\ r.pc = "except"
    /\ \/ /\ RollsBack(r)
          /\ store' = SUBGRAPH_DELETE_OS(store, r.args.vm_name)
          /\ Upd(s, [r EXCEPT !.pc = "push", !.exc = "none",
                              !.interrupted = TRUE,
                              !.calls = Call(r, "deleteSubgraph"),
                              !.dels = Append(@, [before |-> store,
                                                  after |-> store'])])
       \/ /\ ~RollsBack(r)
          /\ UNCHANGED store
          /\ Upd(s, [r EXCEPT !.pc = "push", !.exc = "none",
                              !.interrupted = TRUE])

\* if neo4j.get('enabled'): graph.push(neo4j['OS']) (lines 194-198)
PushOS(s) ==
    LET r == sess[s]
        out == IF r.interrupted THEN "interrupted" ELSE "completed"
    IN
    /\ r.pc = "push"
    /\ \/ /\ r.args.enabled
          /\ \E n \in r.os_node : store' = Push(store, n)
          /\ Upd(s, [r EXCEPT !.pc = "done", !.outcome = out,
                              !.calls = Call(r, "push")])
       \/ /\ ~r.args.enabled
          /\ UNCHANGED store
          /\ Upd(s, [r EXCEPT !.pc = "done", !.outcome = out])

\* A factory whose __init__ raised is never given to the with statement;
\* its NamedTemporaryFile and TemporaryDirectory (lines 34, 43) are removed
\* only by their finalizers, once nothing refers to the object any more:
\* after the except clause has dropped the exception, or after capture_main.
Finalize(s) ==
    LET r == sess[s] IN
    /\ r.pc \in {"push", "done"}
    /\ r.exits = 0
    /\ r.tmp_f = "open" \/ r.storage = "exists"
    /\ Upd(s, [r EXCEPT !.tmp_f = IF @ = "open" THEN "closed" ELSE @,
                        !.storage = IF @ = "exists" THEN "removed" ELSE @])
    /\ UNCHANGED store

----------------------------------------------------------------------------

Next ==
    \/ \E s \in Sessions : LoadConfig(s)
    \/ \E s \in Sessions : Connect(s)
    \/ \E s \in Sessions : DeleteGraph(s)
    \/ \E s \in Sessions : SkipIfPresent(s)
    \/ \E s \in Sessions : ReplaceIfPresent(s)
    \/ \E s \in Sessions : DeletePrevious(s)
    \/ \E s \in Sessions : CreateOS(s)
    \/ \E s \in Sessions : MakeTempFile(s)
    \/ \E s \in Sessions : OpenHypervisor(s)
    \/ \E s \in Sessions : LookupDomain(s)
    \/ \E s \in Sessions : ExportXML(s)
    \/ \E s \in Sessions : ResolveDisk(s)
    \/ \E s \in Sessions : MakeTempDir(s)
    \/ \E s \in Sessions : BaseInit(s)
    \/ \E s \in Sessions : PropagateInitError(s)
    \/ \E s \in Sessions : EnterEnvironment(s)
    \/ \E s \in Sessions : TriggerProtocolStart(s)
    \/ \E s \in Sessions : TriggerOffline(s)
    \/ \E s \in Sessions : PowerOn(s)
    \/ \E s \in Sessions : Sleep(s)
    \/ \E s \in Sessions : TriggerDesktopReady(s)
    \/ \E s \in Sessions : PowerOff(s)
    \/ \E s \in Sessions : TriggerProtocolEnd(s)
    \/ \E s \in Sessions : ExitEnvironment(s)
    \/ \E s \in Sessions : ExitContext(s)
    \/ \E s \in Sessions : Except(s)
    \/ \E s \in Sessions : PushOS(s)
    \/ \E s \in Sessions : Finalize(s)

Spec == Init /\ [][Next]_vars

----------------------------------------------------------------------------
(* Properties.                                                             *)

Has(seq, x) == \E i \in DOMAIN seq : seq[i] = x
Count(seq, x) == Cardinality({i \in DOMAIN seq : seq[i] = x})
\* the first position of x in seq (0 when absent)
First(seq, x) ==
    IF Has(seq, x) THEN CHOOSE i \in DOMAIN seq :
                            seq[i] = x /\ \A j \in 1..(i - 1) : seq[j] # x
    ELSE 0
Last(seq) == seq[Len(seq)]

\* the part of a store that touches the node set X
Part(st, X) ==
    [nodes  |-> st.nodes \cap X,
     edges  |-> {e \in st.edges : e[1] \in X \/ e[2] \in X},
     synced |-> st.synced \cap X]

\* the session's first os_match.first() found an OS node of its VM name
FoundAtAdmission(r) ==
    /\ r.args.enabled
    /\ r.checks # <<>>
    /\ Match(r.checks[1], r.args.vm_name) # {}

\* no os_match.first() of the session found an OS node of its VM name, and
\* the admission check is over
AbsentAtAdmission(r) ==
    /\ r.args.enabled
    /\ r.pc \notin {"load", "neo4j", "delete", "match1", "match2"}
    /\ \A i \in DOMAIN r.checks : Match(r.checks[i], r.args.vm_name) = {}

\* C1: a session with the ledger enabled and replace=false whose admission
\* check finds an entity of its VM name ends as skipped: no temporary file
\* or directory, no context, no protocol phase, no create, deleteSubgraph or
\* push call, and the entity and every node of its subgraph (with their
\* relationships) are in the store as they were when the check ran.
C1_SkipLeavesEverything ==
    \A s \in Sessions :
        LET r == sess[s] IN
        (FoundAtAdmission(r) /\ ~r.args.replace) =>
            /\ r.pc = "done" /\ r.outcome = "skipped"
            /\ r.tmp_f = "none" /\ r.storage = "none" /\ r.env = "none"
            /\ ~r.provisioned
            /\ r.phases = <<>>
            /\ \A c \in {"create", "deleteSubgraph", "push"} : ~Has(r.calls, c)
            /\ LET X == Subgraph(r.checks[1], r.args.vm_name)
               IN  Part(store, X) = Part(r.checks[1], X)

\* C1 witness: a skipped session whose VM already had an entity with a
\* dependent evidence node
C1_Witness ==
    \E s \in Sessions :
        LET r == sess[s] IN
        /\ FoundAtAdmission(r) /\ ~r.args.replace
        /\ r.outcome = "skipped"
        /\ Cardinality(Subgraph(r.checks[1], r.args.vm_name)) > 1

\* C2: a session with the ledger enabled and replace=true whose admission
\* check finds an entity of its VM name calls deleteSubgraph before create;
\* when create runs, neither the prior entity nor any node of its prior
\* subgraph is in the store; the session then goes on to provisioning.
C2_ReplaceDeletesBeforeCreate ==
    \A s \in Sessions :
        LET r == sess[s]
            X == Subgraph(r.checks[1], r.args.vm_name)
        IN
        (FoundAtAdmission(r) /\ r.args.replace) =>
            \/ /\ r.pc = "del_prev"
               /\ ~Has(r.calls, "deleteSubgraph") /\ ~Has(r.calls, "create")
            \/ /\ r.pc = "create"
               /\ Last(r.calls) = "deleteSubgraph" /\ ~Has(r.calls, "create")
               /\ store.nodes \cap X = {}
            \/ /\ Has(r.calls, "create")
               /\ 0 < First(r.calls, "deleteSubgraph")
               /\ First(r.calls, "deleteSubgraph") < First(r.calls, "create")
               /\ \A st \in r.atCreate : st.nodes \cap X = {}
               /\ r.atCreate # {}
               /\ r.outcome # "skipped"
               /\ r.pc \notin {"load", "neo4j", "delete", "match1", "match2",
                               "del_prev", "create"}

\* C2 witness: a replacing session that has created its entity over a prior
\* subgraph of more than one node and has reached the protocol
C2_Witness ==
    \E s \in Sessions :
        LET r == sess[s] IN
        /\ FoundAtAdmission(r) /\ r.args.replace
        /\ Cardinality(Subgraph(r.checks[1], r.args.vm_name)) > 1
        /\ Has(r.calls, "create")
        /\ r.phases # <<>>

\* the nodes that depend on the nodes of S: those their relationships lead
\* to, at any depth
RECURSIVE Dependents(_, _)
Dependents(st, S) ==
    LET T == S \cup {m \in st.nodes : \E n \in S : <<n, m>> \in st.edges}
    IN  IF T = S THEN S ELSE Dependents(st, T)

\* C3: every deleteSubgraph(vmName) call, on the replace path and on the
\* interruption rollback path, removes the named entity and the nodes
\* reachable from it, and removes neither the entity of a different VM name
\* nor a dependent of a different VM name.
C3_DeleteSparesOtherNames ==
    \A s \in Sessions :
        LET r == sess[s] IN
        \A i \in DOMAIN r.dels :
            LET b == r.dels[i].before
                a == r.dels[i].after
            IN
            /\ a.nodes \cap Reach(b, Match(b, r.args.vm_name)) = {}
            /\ \A n \in b.nodes :
                   (n.kind = "OS" /\ n.name # r.args.vm_name) =>
                       Dependents(b, {n}) \subseteq a.nodes

\* C4: a session with the ledger enabled whose admission check finds no
\* entity of its VM name (replace false or true) calls create exactly once,
\* calls deleteSubgraph never during admission, and creates before
\* provisioning starts and before the first protocol phase.
C4_AbsentCreatesOnce ==
    \A s \in Sessions :
        LET r == sess[s] IN
        /\ (r.args.enabled /\ ~Has(r.calls, "create")) =>
               r.tmp_f = "none" /\ r.storage = "none" /\ r.phases = <<>>
        /\ AbsentAtAdmission(r) =>
            \/ /\ r.pc = "create"
               /\ ~Has(r.calls, "create") /\ ~Has(r.calls, "deleteSubgraph")
               /\ r.tmp_f = "none" /\ r.storage = "none" /\ r.phases = <<>>
            \/ /\ r.pc # "create"
               /\ Count(r.calls, "create") = 1
               /\ r.os_node # {} /\ r.atCreate # {}
               /\ \A i \in 1..First(r.calls, "create") :
                      r.calls[i] # "deleteSubgraph"

\* C4 witness: such a session, with replace=true, has fired protocol_start
\* after its one create
C4_Witness ==
    \E s \in Sessions :
        LET r == sess[s] IN
        /\ AbsentAtAdmission(r) /\ r.args.replace
        /\ Count(r.calls, "create") = 1
        /\ r.phases = <<"protocol_start">>

\* the phases of a protocol run that nothing cuts short
OfflineOnly == <<"protocol_start", "offline", "protocol_end">>
FullCycle ==
    <<"protocol_start", "offline", "poweron", "desktop_ready", "poweroff",
      "protocol_end">>

\* the protocol ran to its end: no exception was raised in the session
RanToEnd(r) ==
    /\ r.raised_at = "none"
    /\ r.pc \in {"env_exit", "ctx_exit", "push", "done"}
    /\ r.env # "none"

\* C5: in a protocol run in which no hook raises and no interruption occurs,
\* the phases are exactly protocol_start, offline, protocol_end when the delay
\* is 0, and the context is never powered on; they are exactly
\* protocol_start, offline, poweron, desktop_ready, poweroff, protocol_end
\* when the delay is positive, and the context is off when protocol_end fires.
C5_PhaseSequence ==
    \A s \in Sessions :
        LET r == sess[s] IN
        /\ (r.delay = 0 /\ r.pc # "load") =>
               ~r.powered /\ ~Has(r.phases, "poweron")
        /\ Has(r.phases, "protocol_end") => ~r.powered
        /\ RanToEnd(r) =>
               r.phases = IF r.delay = 0 THEN OfflineOnly ELSE FullCycle

\* C5 witnesses: a complete run with delay 0, and one with a positive delay
C5_Witness ==
    \E s \in Sessions :
        LET r == sess[s] IN
        RanToEnd(r) /\ r.delay = 0 /\ r.args.delay_set /\ r.pc = "done"

C5_WitnessCycle ==
    \E s \in Sessions :
        LET r == sess[s] IN
        RanToEnd(r) /\ r.delay > 0 /\ r.phases = FullCycle /\ r.pc = "done"

\* the statements of the power-cycle sub-sequence (lines 84-92)
PowerCyclePcs == {"poweron", "sleep", "t_ready", "poweroff"}
\* the trigger statements (lines 78, 79, 89, 93)
TriggerPcs == {"t_start", "t_offline", "t_ready", "t_end"}

\* the evidence nodes the session's hooks attached
Attached(s) == {EvNode("hook", s, i) : i \in 1..sess[s].attached}

\* C6: a session interrupted at poweron, during the wait, at desktop_ready
\* or at poweroff has, when it has ended, no temporary storage directory and
\* no temporary configuration file, and the entity it created and every node
\* of that entity's subgraph are out of the store.
C6_InterruptInPowerCycle ==
    \A s \in Sessions :
        LET r == sess[s] IN
        (r.pc = "done" /\ r.interrupted /\ r.raised_at \in PowerCyclePcs) =>
            /\ r.storage = "removed"
            /\ r.tmp_f = "closed"
            /\ store.nodes \cap (r.os_node \cup Attached(s)) = {}
            /\ \A i \in DOMAIN r.dels : store.nodes \cap
                   Reach(r.dels[i].before, r.os_node) = {}
            /\ r.args.enabled => r.os_node # {} /\ r.dels # <<>>

\* C6 witness: interrupted during the wait, after a hook had attached an
\* evidence node to the entity the session created
C6_Witness ==
    \E s \in Sessions :
        LET r == sess[s] IN
        /\ r.pc = "done" /\ r.interrupted /\ r.raised_at = "sleep"
        /\ r.os_node # {} /\ r.attached > 0

\* C7: once QEMUDomainContextFactory.__init__ has returned, __exit__ runs
\* exactly once on every way out of the with statement (normal completion,
\* a hook raising, an interruption), so that past the with statement the
\* temporary directory is removed and the temporary file closed; it never
\* runs twice, and never before the with statement is left.
C7_ReleaseExactlyOnce ==
    \A s \in Sessions :
        LET r == sess[s] IN
        /\ r.exits <= 1
        /\ (r.provisioned /\ r.pc \in {"except", "push", "done"}) =>
               r.exits = 1 /\ r.storage = "removed" /\ r.tmp_f = "closed"
        /\ (r.provisioned /\ r.pc \notin {"except", "push", "done"}) =>
               r.exits = 0 /\ r.storage = "exists" /\ r.tmp_f = "open"
        /\ r.exits = 1 => r.provisioned

\* C7 witnesses: a released session that ended by a hook's exception, by an
\* interruption, and by normal completion
C7_Witness ==
    \E s \in Sessions :
        LET r == sess[s] IN
        r.pc = "done" /\ r.exits = 1 /\ r.outcome = "failed"
            /\ r.raised_at \in TriggerPcs

C7_WitnessInterrupt ==
    \E s \in Sessions :
        LET r == sess[s] IN
        r.pc = "done" /\ r.exits = 1 /\ r.outcome = "interrupted"

C7_WitnessCompleted ==
    \E s \in Sessions :
        LET r == sess[s] IN
        r.pc = "done" /\ r.exits = 1 /\ r.outcome = "completed"

\* C8: when an error of the hypervisor open, the VM lookup, the
\* configuration export, the disk path resolution or the base context
\* construction leaves __init__, no temporary file and no temporary
\* directory that __init__ created is left.
C8_NoPartialContext ==
    \A s \in Sessions :
        LET r == sess[s] IN
        r.pc = "prov_raised" => r.tmp_f # "open" /\ r.storage # "exists"

\* C9: when a hook raises at a trigger point, no later phase is started, the
\* exception leaves capture_main after __exit__ has run, and the ledger is
\* not touched again: no deleteSubgraph and no push follow the create, and
\* the entity the session created stays in the store.
C9_HookErrorPropagates ==
    \A s \in Sessions :
        LET r == sess[s] IN
        (r.exc = "error" /\ r.raised_at \in TriggerPcs) =>
            /\ r.pc \in {"env_exit", "ctx_exit", "done"}
            /\ Last(r.phases) = CASE r.raised_at = "t_start"   -> "protocol_start"
                                  [] r.raised_at = "t_offline" -> "offline"
                                  [] r.raised_at = "t_ready"   -> "desktop_ready"
                                  [] OTHER                     -> "protocol_end"
            /\ Count(r.phases, Last(r.phases)) = 1
            /\ ~r.interrupted
            /\ r.pc = "done" =>
                   /\ r.outcome = "failed"
                   /\ r.exits = 1 /\ r.storage = "removed" /\ r.tmp_f = "closed"
            /\ r.args.enabled =>
                   /\ Last(r.calls) = "create"
                   /\ r.os_node # {} /\ r.os_node \subseteq store.nodes

\* C9 witness: a hook raised at desktop_ready in a session that had created
\* its entity, and the exception has left capture_main
C9_Witness ==
    \E s \in Sessions :
        LET r == sess[s] IN
        /\ r.exc = "error" /\ r.raised_at = "t_ready" /\ r.pc = "done"
        /\ r.os_node # {}

\* the protocol driver has been left: by its last statement or by an exception
ProtocolOver(r) ==
    /\ r.phases # <<>>
    /\ r.pc \in {"env_exit", "ctx_exit", "except", "push", "done"}

\* C10 as claimed: in every run of the protocol driver, whatever the hooks
\* do, protocol_start is the first trigger fired and protocol_end the last.
C10_AlwaysBracketed ==
    \A s \in Sessions :
        LET r == sess[s] IN
        ProtocolOver(r) =>
            r.phases[1] = "protocol_start" /\ Last(r.phases) = "protocol_end"

\* C10 as amended: protocol_start is the first trigger of every run; a run in
\* which no hook raises and no interruption occurs ends with protocol_end;
\* a run cut short by an exception before protocol_end never fires it.
C10_BracketedUnlessRaised ==
    \A s \in Sessions :
        LET r == sess[s] IN
        /\ r.phases # <<>> => r.phases[1] = "protocol_start"
        /\ Count(r.phases, "protocol_start") <= 1
        /\ (ProtocolOver(r) /\ r.raised_at = "none") =>
               Last(r.phases) = "protocol_end"
        /\ (ProtocolOver(r) /\ r.raised_at \notin {"none", "t_end"}) =>
               ~Has(r.phases, "protocol_end")

\* C10 witnesses: a run that a hook cut short at offline, and a complete run
C10_Witness ==
    \E s \in Sessions :
        LET r == sess[s] IN
        ProtocolOver(r) /\ r.exc = "error" /\ r.raised_at = "t_offline"

C10_WitnessComplete ==
    \E s \in Sessions :
        LET r == sess[s] IN
        ProtocolOver(r) /\ r.raised_at = "none" /\ r.pc = "done"

\* C11 as claimed: when a session has ended, on whichever path, no temporary
\* storage it created still exists, and the store holds no entity that the
\* session created for a capture whose protocol_start never fired.
C11_NoDivergenceAtEnd ==
    \A s \in Sessions :
        LET r == sess[s] IN
        r.pc = "done" =>
            /\ r.storage # "exists"
            /\ r.phases = <<>> => store.nodes \cap r.os_node = {}

\* the session was interrupted inside its try block, with the ledger enabled,
\* and has ended
InterruptedAtEnd(r) ==
    /\ r.pc = "done"
    /\ r.outcome = "interrupted"
    /\ r.args.enabled

\* C12 as claimed: after an interruption during provisioning or the protocol,
\* with the ledger enabled, the store at the end of the session equals the
\* store before the session started and the session's entity is absent, on
\* every admission path.
C12_InterruptRestoresStore ==
    \A s \in Sessions :
        LET r == sess[s] IN
        InterruptedAtEnd(r) =>
            /\ store.nodes \cap r.os_node = {}
            /\ store = r.store0

\* C12 amended: after such an interruption the session's entity is absent
\* and the store is what admission left just before graph.create; that is the
\* store before the session only when deleteAll was not requested and no
\* entity of the VM name was there; what replace=true or deleteAll removed
\* stays removed.
C12_InterruptRemovesOwnEntity ==
    \A s \in Sessions :
        LET r == sess[s] IN
        InterruptedAtEnd(r) =>
            /\ r.os_node # {}
            /\ store.nodes \cap r.os_node = {}
            /\ \A st \in r.atCreate : store = st
            /\ (~r.args.delete /\ Match(r.store0, r.args.vm_name) = {})
                   => store = r.store0
            /\ (~r.args.delete /\ Match(r.store0, r.args.vm_name) # {})
                   => /\ store = SUBGRAPH_DELETE_OS(r.store0, r.args.vm_name)
                      /\ store # r.store0
            /\ r.args.delete => store = DeleteAll(r.store0)

\* an interrupted session that had replaced a prior entity, one that had
\* emptied the store, and one that found nothing, all after a hook stored
\* evidence
C12_Witness ==
    \E s \in Sessions :
        /\ InterruptedAtEnd(sess[s])
        /\ sess[s].attached > 0
        /\ ~sess[s].args.delete
        /\ sess[s].args.replace
        /\ Match(sess[s].store0, sess[s].args.vm_name) # {}

C12_WitnessDeleteAll ==
    \E s \in Sessions :
        /\ InterruptedAtEnd(sess[s])
        /\ sess[s].args.delete
        /\ sess[s].store0 # EmptyStore

C12_WitnessAbsent ==
    \E s \in Sessions :
        /\ InterruptedAtEnd(sess[s])
        /\ sess[s].attached > 0
        /\ ~sess[s].args.delete
        /\ Match(sess[s].store0, sess[s].args.vm_name) = {}
        /\ sess[s].store0 # EmptyStore

\* C13: a session whose configuration has no neo4j key, or has neo4j.enabled
\* false, makes no ledger call at any point and on any path (no connection,
\* deleteAll, findByName, deleteSubgraph, create or push) and leaves the
\* store as it was, whether it completes or is interrupted; with
\* desktop_ready_delay 0 a run that reaches its end is the offline-only
\* protocol.
C13_DisabledTouchesNothing ==
    \A s \in Sessions :
        LET r == sess[s] IN
        ~r.args.enabled =>
            /\ r.calls = <<>>
            /\ r.checks = <<>> /\ r.dels = <<>>
            /\ ~r.graph /\ r.os_node = {}
            /\ store = r.store0
            /\ r.outcome # "skipped"
            /\ (r.delay = 0 /\ RanToEnd(r)) => r.phases = OfflineOnly

\* a disabled session with delete and replace set that was interrupted while
\* a trigger ran, and a disabled session with delay 0 that completed
C13_Witness ==
    \E s \in Sessions :
        LET r == sess[s] IN
        /\ ~r.args.enabled /\ r.args.delete /\ r.args.replace
        /\ r.pc = "done" /\ r.outcome = "interrupted"
        /\ r.phases # <<>>

C13_WitnessOffline ==
    \E s \in Sessions :
        LET r == sess[s] IN
        /\ ~r.args.enabled
        /\ r.pc = "done" /\ r.outcome = "completed"
        /\ r.delay = 0 /\ r.phases = OfflineOnly
        /\ store # EmptyStore

-----------------------------------------------------------------------------
(* The SUBGRAPH_DELETE_OS query on its own: graph.run of lines 22-27 applied *)
(* to any store for any VM name, several times in a row. Here sess is the    *)
(* log of the runs.                                                          *)

MaxCalls == 2

InitDel ==
    /\ store \in Stores
    /\ sess = <<>>

\* graph.run(SUBGRAPH_DELETE_OS.format(vm)) (lines 22-27, 161, 190)
RunDelete(vm) ==
    /\ Len(sess) < MaxCalls
    /\ store' = SUBGRAPH_DELETE_OS(store, vm)
    /\ sess' = Append(sess, [vm |-> vm, before |-> store, after |-> store'])

NextDel == \E vm \in VMNames : RunDelete(vm)

SpecDel == InitDel /\ [][NextDel]_vars

\* C14: deleteSubgraph is idempotent: for every store and every VM name,
\* running it a second time right after the first leaves the store the first
\* run produced, and running it for a name with no OS node in the store
\* changes nothing (the query matches no row and is not an error).
C14_DeleteSubgraphIdempotent ==
    /\ \A vm \in VMNames :
           LET once == SUBGRAPH_DELETE_OS(store, vm) IN
           /\ SUBGRAPH_DELETE_OS(once, vm) = once
           /\ Match(store, vm) = {} => once = store
    /\ \A i \in DOMAIN sess :
           /\ Match(sess[i].after, sess[i].vm) = {}
           /\ Match(sess[i].before, sess[i].vm) = {}
                  => sess[i].after = sess[i].before
           /\ (i > 1 /\ sess[i - 1].vm = sess[i].vm)
                  => sess[i].after = sess[i - 1].after

\* two runs in a row for one name, the first of which deleted an OS node
\* with evidence and left other nodes
C14_Witness ==
    /\ Len(sess) >= 2
    /\ sess[1].vm = sess[2].vm
    /\ Cardinality(sess[1].before.nodes \ sess[1].after.nodes) > 1
    /\ sess[2].after.nodes # {}

\* a run for a name that is not in a store that holds other nodes
C14_WitnessAbsent ==
    /\ Len(sess) >= 1
    /\ Match(sess[1].before, sess[1].vm) = {}
    /\ sess[1].before.nodes # {}

\* C15: when hooks.json does not parse, the session aborts before any side
\* effect: no ledger call, no temporary file or directory, no trigger, no
\* domain powered on, and the store unchanged; it ends as a configuration
\* error.
C15_ParseFailureHasNoEffect ==
    \A s \in Sessions :
        LET r == sess[s] IN
        ~r.args.json_ok =>
            /\ r.pc \in {"load", "done"}
            /\ r.pc = "done" => r.outcome = "config_error"
            /\ r.calls = <<>> /\ ~r.graph /\ r.os_node = {}
            /\ r.tmp_f = "none" /\ r.storage = "none" /\ r.env = "none"
            /\ r.phases = <<>> /\ ~r.powered /\ r.slept = 0
            /\ store = r.store0

\* a session that ended on the parse error, over a store that holds entities
C15_Witness ==
    \E s \in Sessions :
        /\ ~sess[s].args.json_ok
        /\ sess[s].pc = "done"
        /\ sess[s].outcome = "config_error"
        /\ store # EmptyStore

\* C16 as claimed: with the ledger enabled, a session that has ended pushed
\* the entity if and only if its protocol completed normally; an interrupted
\* session ran deleteSubgraph and did not push; a skipped session did neither.
C16_PushIffCompleted ==
    \A s \in Sessions :
        LET r == sess[s] IN
        (r.pc = "done" /\ r.args.enabled) =>
            /\ Has(r.calls, "push") <=> r.outcome = "completed"
            /\ r.outcome = "interrupted" =>
                   /\ Last(r.calls) = "deleteSubgraph"
                   /\ ~Has(r.calls, "push")
            /\ r.outcome = "skipped" =>
                   /\ ~Has(r.calls, "deleteSubgraph")
                   /\ ~Has(r.calls, "push")

-----------------------------------------------------------------------------
(* Sessions one after the other on one store: capture_main is run again     *)
(* once the previous run has ended. The store starts empty and only the     *)
(* current run is kept in sess; the run number makes its nodes new ones.    *)

MaxRuns == 3

InitSeq ==
    /\ store = EmptyStore
    /\ \E a \in Args : sess = [s \in {1} |-> NewSession(a, store)]

\* the next invocation of capture_main (line 112), after the previous
\* process has ended
NextSession(s) ==
    /\ sess[s].pc = "done"
    /\ s < MaxRuns
    /\ \E a \in Args : sess' = [t \in {s + 1} |-> NewSession(a, store)]
    /\ UNCHANGED store

NextSeq ==
    \/ Next
    \/ \E s \in Sessions : NextSession(s)

SpecSeq == InitSeq /\ [][NextSeq]_vars

\* C17: after any sequence of sessions that do not overlap on one store,
\* whatever their VM names, replace and delete flags, delays and outcomes,
\* the store holds at most one OS entity for each VM name.
C17_AtMostOnePerName ==
    \A vm \in VMNames : Cardinality(Match(store, vm)) <= 1

\* a later session has replaced the entity an earlier session created, while
\* an entity of the other name is in the store too
C17_Witness ==
    \E s \in Sessions :
        LET r == sess[s] IN
        /\ s > 1
        /\ r.pc = "done"
        /\ Match(r.store0, r.args.vm_name) # {}
        /\ Match(store, r.args.vm_name) = r.os_node
        /\ r.os_node # {}
        /\ \A vm \in VMNames : Match(store, vm) # {}

-----------------------------------------------------------------------------
(* Two capture_main processes started on one store for the same VM name:    *)
(* their steps interleave freely, nothing in capture.py serialises them.    *)

\* the two command lines: the same VM name, the ledger enabled
ConcArgs ==
    { a \in Args : /\ a.json_ok /\ a.enabled /\ a.vm_name = "a"
                   /\ ~a.delete
                   /\ a.delay_set /\ a.delay = MaxDelay }

\* the store the two start on: empty, or an earlier capture of the VM
ConcStores ==
    { st \in Stores : st.nodes \subseteq {OSNode("a", 0)} }

InitConc ==
    /\ store \in ConcStores
    /\ \E a, b \in ConcArgs :
           \* the two processes run the same program: one order of the pair
           /\ a.replace \/ ~b.replace
           /\ sess = [s \in {1, 2} |-> IF s = 1 THEN NewSession(a, store)
                                             ELSE NewSession(b, store)]

SpecConc == InitConc /\ [][Next]_vars

\* the store the session saw at its last os_match.first()
LastCheck(r) == Last(r.checks)

\* C18: findByName and create are separate steps and nothing spans them:
\* two sessions for one VM name that run at the same time can both pass the
\* admission check and both create, and this race is the only way two OS
\* entities of one VM name come to be in the store: whenever there are two,
\* they are the entities of the two sessions, and each session's last
\* admission check ran on a store that did not yet hold the other's entity.
C18_DuplicatesOnlyByRace ==
    \A vm \in VMNames :
        \A n \in Match(store, vm) :
            \A m \in Match(store, vm) \ {n} :
                \E s \in Sessions :
                    \E t \in Sessions \ {s} :
                        /\ sess[s].os_node = {n}
                        /\ sess[t].os_node = {m}
                        /\ sess[s].checks # <<>> /\ sess[t].checks # <<>>
                        /\ m \notin LastCheck(sess[s]).nodes
                        /\ n \notin LastCheck(sess[t]).nodes

\* both sessions passed the admission check, both created, both completed,
\* and the store holds two OS entities of the one VM name
C18_Witness ==
    /\ \A s \in Sessions :
           /\ sess[s].pc = "done"
           /\ sess[s].outcome = "completed"
           /\ sess[s].os_node \subseteq store.synced
    /\ \E vm \in VMNames : Cardinality(Match(store, vm)) = 2

\* the same with replace = true in both sessions and an earlier entity that
\* both deleted
C18_WitnessReplace ==
    /\ \A s \in Sessions :
           /\ sess[s].pc = "done"
           /\ sess[s].args.replace
           /\ Match(sess[s].store0, sess[s].args.vm_name) # {}
    /\ \E vm \in VMNames : Cardinality(Match(store, vm)) = 2

\* the context has been acquired (the constructor returned) and is not yet
\* fully released
ContextHeld(r) ==
    /\ r.provisioned
    /\ \/ r.exits = 0
       \/ r.storage = "exists"
       \/ r.tmp_f = "open"
       \/ r.env = "entered"
       \/ r.powered

\* the ledger call is one of admission: anything up to and including create
AdmissionCall(r, c) ==
    \/ c \in {"connect", "deleteAll", "findByName", "create"}
    \/ c = "deleteSubgraph" /\ ~Has(r.calls, "create")

\* C19: within a session the order is admission, provisioning, protocol,
\* release, reconciliation: every ledger call of admission (connect,
\* deleteAll, findByName, deleteSubgraph, create) is made before any part of
\* the context exists and before any trigger; every reconciliation call
\* (push, deleteSubgraph after an interruption) is made after create and,
\* when the context had been acquired, after it was released exactly once;
\* capture_main makes no ledger call while the context is held.
C19_LedgerCallsOutsideContext ==
    [][\A s \in Sessions \cap DOMAIN sess' :
           sess'[s].calls # sess[s].calls =>
               LET r == sess[s]
                   c == Last(sess'[s].calls)
               IN  /\ ~ContextHeld(r)
                   /\ Len(sess'[s].calls) = Len(r.calls) + 1
                   /\ AdmissionCall(r, c) =>
                          /\ r.tmp_f = "none" /\ r.storage = "none"
                          /\ r.env = "none" /\ ~r.provisioned
                          /\ r.phases = <<>>
                          /\ ~Has(r.calls, "push")
                   /\ ~AdmissionCall(r, c) =>
                          /\ Has(r.calls, "create")
                          /\ r.provisioned => r.exits = 1
                          /\ (c = "push" /\ ~r.interrupted) =>
                                 /\ r.provisioned
                                 /\ Last(r.phases) = "protocol_end"
                          /\ c = "deleteSubgraph" => r.exc = "interrupt"
      ]_vars

\* an interrupted session that had acquired its context and fired triggers:
\* it released the context, then deleted the subgraph
C19_Witness ==
    \E s \in Sessions :
        LET r == sess[s] IN
        /\ r.pc = "done"
        /\ r.provisioned /\ r.exits = 1
        /\ r.phases # <<>>
        /\ r.interrupted
        /\ Has(r.calls, "create")
        /\ Last(r.calls) = "push"
        /\ r.calls[Len(r.calls) - 1] = "deleteSubgraph"

\* a completed session: admission calls, then the context, then push
C19_WitnessCompleted ==
    \E s \in Sessions :
        LET r == sess[s] IN
        /\ r.pc = "done" /\ r.outcome = "completed"
        /\ r.exits = 1
        /\ Count(r.calls, "deleteSubgraph") = 1
        /\ Last(r.calls) = "push"

====
